---- MODULE Spec2Model ----
(***************************************************************************)
(* ProcessGameState (process_game_state.py): a table of player-tick rows   *)
(* is loaded, enriched with the derived columns in_boundary and            *)
(* weapon_classes, and then queried by team_strategy,                      *)
(* average_timer_with_weapons and heatmap_coordinates.                     *)
(*                                                                         *)
(* The table self.data is modelled column-wise, as pandas holds it: a      *)
(* function from column names to sequences of cell values, all of the same *)
(* length.  Coordinates, heights and timers are integers.  A mean is kept  *)
(* as the pair <<sum, count>> it is the quotient of.                       *)
(***************************************************************************)
EXTENDS Integers, Sequences, FiniteSets, TLC

VARIABLES
    loaded,         \* the table read from the parquet file, as read
    data,           \* self.data
    polygon,        \* self.polygon, as its ring of vertices
    pc,             \* "loaded", "filtered", then "constructed" or "failed"
    raised,         \* the exception that ended the construction, or ""
    call,           \* the query in progress and its arguments
    weapon_counts,  \* the weapon_count column of that query's team_data
    ret             \* the outcome of that query

vars == <<loaded, data, polygon, pc, raised, call, weapon_counts, ret>>

(***************************************************************************)
(* Bounds of the model.                                                    *)
(***************************************************************************)
\* rows of a table whose rows vary freely within a family
MaxRows == 2
\* x and y range over 0..MaxXY
MaxXY == 4
\* items of an inventory cell
MaxInv == 2
\* the min_weapons argument ranges over 0..MaxMinWeapons
MaxMinWeapons == 3

(***************************************************************************)
(* Program constants.                                                      *)
(***************************************************************************)
ZMin == 285
ZMax == 421
bins == 10

NoDataTeamSide == "No data available for the given team and side"
NoDataConditions == "No data available for the given conditions"

(***************************************************************************)
(* Python values.  None, a list and a scalar are told apart by the one     *)
(* field of the record that wraps them; a dict is the record of its keys.  *)
(***************************************************************************)
None == [none |-> TRUE]

IsNone(v) == "none" \in DOMAIN v

List(s) == [list |-> s]

IsList(v) == "list" \in DOMAIN v

Dict(d) == [dict |-> d]

IsDict(v) == "dict" \in DOMAIN v

Scalar(n) == [scalar |-> n]

Range(s) == { s[i] : i \in DOMAIN s }

SeqsUpTo(S, n) == UNION { [1..k -> S] : k \in 0..n }

RECURSIVE SumSeq(_)
SumSeq(s) == IF s = <<>> THEN 0 ELSE s[1] + SumSeq(Tail(s))

\* the subsequence of s at the positions keep[i] = TRUE (boolean-mask indexing)
RECURSIVE Mask(_, _)
Mask(s, keep) ==
    IF s = <<>> THEN <<>>
    ELSE (IF keep[1] THEN <<s[1]>> ELSE <<>>) \o Mask(Tail(s), Tail(keep))

(***************************************************************************)
(* shapely: Polygon(vertices).contains(Point(x, y)).  A point is contained *)
(* when it lies in the interior: a point of the boundary is not.           *)
(***************************************************************************)
Min2(a, b) == IF a <= b THEN a ELSE b

Max2(a, b) == IF a >= b THEN a ELSE b

Cross(a, b, p) == (b[1] - a[1]) * (p[2] - a[2]) - (b[2] - a[2]) * (p[1] - a[1])

OnSegment(a, b, p) ==
    /\ Cross(a, b, p) = 0
    /\ Min2(a[1], b[1]) <= p[1] /\ p[1] <= Max2(a[1], b[1])
    /\ Min2(a[2], b[2]) <= p[2] /\ p[2] <= Max2(a[2], b[2])

\* the k-th edge of the ring, which closes from the last vertex to the first
EdgeFrom(poly, k) == poly[k]

EdgeTo(poly, k) == poly[(k % Len(poly)) + 1]

OnBoundary(poly, p) ==
    \E k \in 1..Len(poly) : OnSegment(EdgeFrom(poly, k), EdgeTo(poly, k), p)

\* the horizontal ray from p towards +x crosses the edge a-b
RayCrosses(a, b, p) ==
    /\ (a[2] > p[2]) # (b[2] > p[2])
    /\ IF b[2] > a[2]
       THEN (p[1] - a[1]) * (b[2] - a[2]) < (p[2] - a[2]) * (b[1] - a[1])
       ELSE (p[1] - a[1]) * (b[2] - a[2]) > (p[2] - a[2]) * (b[1] - a[1])

Crossings(poly, p) ==
    Cardinality({ k \in 1..Len(poly) :
                    RayCrosses(EdgeFrom(poly, k), EdgeTo(poly, k), p) })

Contains(poly, p) == ~OnBoundary(poly, p) /\ Crossings(poly, p) % 2 = 1

(***************************************************************************)
(* The table.                                                              *)
(***************************************************************************)
HasColumn(d, c) == c \in DOMAIN d

NRows(d) == Len(d["x"])

Rows(d) == 1..NRows(d)

\* d[name] = column: the column is added, or replaced when it exists
SetColumn(d, name, column) ==
    [c \in DOMAIN d \cup {name} |-> IF c = name THEN column ELSE d[c]]

\* d[keep]: the rows of d at which the boolean mask holds, in order
SelectRows(d, keep) == [c \in DOMAIN d |-> Mask(d[c], keep)]

(***************************************************************************)
(* filter_rows_in_boundary                                                 *)
(***************************************************************************)
ZMinExclusive(d, i) == d["z"][i] > ZMin /\ d["z"][i] <= ZMax

ZInBounds(d, i) == d["z"][i] >= ZMin /\ d["z"][i] <= ZMax

InBoundaryColumn(d, poly) ==
    [i \in Rows(d) |-> Contains(poly, <<d["x"][i], d["y"][i]>>) /\ ZInBounds(d, i)]

filter_rows_in_boundary ==
    /\ pc = "loaded"
    /\ data' = SetColumn(data, "in_boundary", InBoundaryColumn(data, polygon))
    /\ pc' = "filtered"
    /\ UNCHANGED <<loaded, polygon, raised, call, weapon_counts, ret>>

(***************************************************************************)
(* extract_weapon_classes                                                  *)
(***************************************************************************)
\* item['class']: the value, or the exception the subscript raises
ItemClass(item) ==
    IF ~IsDict(item) THEN [exc |-> "TypeError"]
    ELSE IF "class" \notin DOMAIN item.dict THEN [exc |-> "KeyError"]
    ELSE [val |-> item.dict["class"]]

\* [item['class'] for item in inventory_list]: the list, or the exception of
\* the first item whose subscript raises
RECURSIVE ClassesOf(_)
ClassesOf(items) ==
    IF items = <<>> THEN [val |-> <<>>]
    ELSE LET first == ItemClass(items[1])
         IN  IF "exc" \in DOMAIN first THEN first
             ELSE LET rest == ClassesOf(Tail(items))
                  IN  IF "exc" \in DOMAIN rest THEN rest
                      ELSE [val |-> <<first.val>> \o rest.val]

\* the classes of the items that have one, the others skipped
RECURSIVE PresentClasses(_)
PresentClasses(items) ==
    IF items = <<>> THEN <<>>
    ELSE (IF IsDict(items[1]) /\ "class" \in DOMAIN items[1].dict
          THEN <<items[1].dict["class"]>> ELSE <<>>) \o PresentClasses(Tail(items))

extract_classes_partial(inventory_list) ==
    IF IsNone(inventory_list) THEN [val |-> <<>>]
    ELSE IF ~IsList(inventory_list) THEN [exc |-> "TypeError"]
    ELSE LET r == ClassesOf(inventory_list.list)
         IN  IF "exc" \in DOMAIN r /\ r.exc = "KeyError"
             THEN [val |-> PresentClasses(inventory_list.list)]
             ELSE r

extract_classes(inventory_list) ==
    IF IsNone(inventory_list) THEN [val |-> <<>>]
    ELSE IF ~IsList(inventory_list) THEN [exc |-> "TypeError"]
    ELSE LET r == ClassesOf(inventory_list.list)
         IN  IF "exc" \in DOMAIN r /\ r.exc = "KeyError" THEN [val |-> <<>>]
             ELSE r

\* Series.apply(extract_classes): the first row that raises ends the apply
ApplyRaises(d) ==
    \E i \in Rows(d) : "exc" \in DOMAIN extract_classes(d["inventory"][i])

WeaponClassesColumn(d) ==
    [i \in Rows(d) |-> extract_classes(d["inventory"][i]).val]

\* the exception of the first statement on a table without the column, or ""
MissingInventoryUnchecked(d) ==
    IF ~HasColumn(d, "inventory") THEN "KeyError: inventory" ELSE ""

MissingInventoryRaises(d) ==
    IF ~HasColumn(d, "inventory")
    THEN "ValueError: Missing 'inventory' column in DataFrame"
    ELSE ""

extract_weapon_classes ==
    /\ pc = "filtered"
    /\ IF MissingInventoryRaises(data) # ""
       THEN /\ pc' = "failed"
            /\ raised' = MissingInventoryRaises(data)
            /\ data' = data
       ELSE IF ApplyRaises(data)
       THEN /\ pc' = "failed"
            /\ raised' = "TypeError"
            /\ data' = data
       ELSE /\ pc' = "constructed"
            /\ raised' = raised
            /\ data' = SetColumn(data, "weapon_classes", WeaponClassesColumn(data))
    /\ UNCHANGED <<loaded, polygon, call, weapon_counts, ret>>

(***************************************************************************)
(* The queries.  A query's outcome is [kind, value]: a float (a mean, as   *)
(* <<sum, count>>), the no-data sentinel, an error message returned as a   *)
(* value, a grid, or an exception raised to the caller.                    *)
(***************************************************************************)
Float(sum, count) == [kind |-> "float", value |-> <<sum, count>>]

NoData(msg) == [kind |-> "nodata", value |-> msg]

ErrorMessage(msg) == [kind |-> "error", value |-> msg]

Raise(exc) == [kind |-> "raised", value |-> exc]

Grid(g) == [kind |-> "grid", value |-> g]

BoolToInt(b) == IF b THEN 1 ELSE 0

\* (self.data['team'] == team) & (self.data['side'] == side)
TeamSideMask(d, team, side) ==
    [i \in Rows(d) |-> d["team"][i] = team /\ d["side"][i] = side]

\* the first of the columns that the table lacks, in the order they are read
MissingColumn(d, columns) ==
    IF \A k \in DOMAIN columns : HasColumn(d, columns[k]) THEN ""
    ELSE columns[CHOOSE k \in DOMAIN columns :
                    /\ ~HasColumn(d, columns[k])
                    /\ \A j \in 1..(k - 1) : HasColumn(d, columns[j])]

\* Series.mean() of a numeric column
Mean(column) == Float(SumSeq(column), Len(column))

(***************************************************************************)
(* team_strategy                                                           *)
(***************************************************************************)
team_strategy_zero_as_nodata(d, team, side) ==
    IF MissingColumn(d, <<"team", "side">>) # ""
    THEN Raise("KeyError: " \o MissingColumn(d, <<"team", "side">>))
    ELSE LET team_data == SelectRows(d, TeamSideMask(d, team, side))
             m == Mean([i \in Rows(team_data) |->
                           BoolToInt(team_data["in_boundary"][i])])
         IN  IF NRows(team_data) = 0 \/ m.value[1] = 0
             THEN NoData(NoDataTeamSide)
             ELSE m

team_strategy_returns(d, team, side) ==
    IF MissingColumn(d, <<"team", "side">>) # ""
    THEN Raise("KeyError: " \o MissingColumn(d, <<"team", "side">>))
    ELSE LET team_data == SelectRows(d, TeamSideMask(d, team, side))
         IN  IF NRows(team_data) = 0
             THEN NoData(NoDataTeamSide)
             ELSE Mean([i \in Rows(team_data) |->
                           BoolToInt(team_data["in_boundary"][i])])

(***************************************************************************)
(* average_timer_with_weapons                                              *)
(***************************************************************************)
\* sum([weapon in x for weapon in weapon_types])
RECURSIVE weapon_count(_, _)
weapon_count(x, weapon_types) ==
    IF weapon_types = <<>> THEN 0
    ELSE BoolToInt(weapon_types[1] \in Range(x)) + weapon_count(x, Tail(weapon_types))

WeaponCountColumn(team_data, weapon_types) ==
    [i \in Rows(team_data) |-> weapon_count(team_data["weapon_classes"][i], weapon_types)]

\* team_data[team_data['weapon_count'] >= min_weapons]
AtLeast(team_data, min_weapons) ==
    SelectRows(team_data,
               [i \in Rows(team_data) |-> team_data["weapon_count"][i] >= min_weapons])

\* the while loop: the value of min_weapons when it ends
\* a single relaxation step in place of the loop
RelaxOnce(team_data, min_weapons) ==
    IF NRows(AtLeast(team_data, min_weapons)) = 0 /\ min_weapons > 0
    THEN min_weapons - 1
    ELSE min_weapons

RECURSIVE Relax(_, _)
Relax(team_data, min_weapons) ==
    IF NRows(AtLeast(team_data, min_weapons)) = 0 /\ min_weapons > 0
    THEN Relax(team_data, min_weapons - 1)
    ELSE min_weapons

\* the weapon_count column of the local team_data, <<>> when the call does not
\* get to compute it
average_timer_with_weapons_counts(d, team, side, min_weapons, weapon_types) ==
    IF MissingColumn(d, <<"team", "side", "weapon_classes">>) # "" \/ ~IsList(weapon_types)
    THEN <<>>
    ELSE WeaponCountColumn(SelectRows(d, TeamSideMask(d, team, side)),
                           weapon_types.list)

average_timer_with_weapons_returns(d, team, side, min_weapons, weapon_types) ==
    IF MissingColumn(d, <<"team", "side", "weapon_classes">>) # ""
    THEN ErrorMessage("Error: '"
                      \o MissingColumn(d, <<"team", "side", "weapon_classes">>)
                      \o "' not found in data")
    ELSE LET selected == SelectRows(d, TeamSideMask(d, team, side))
         IN  IF NRows(selected) > 0 /\ ~IsList(weapon_types)
             THEN ErrorMessage("Unexpected error: 'NoneType' object is not iterable")
             ELSE LET types == IF IsList(weapon_types) THEN weapon_types.list ELSE <<>>
                      team_data == SetColumn(selected, "weapon_count",
                                             WeaponCountColumn(selected, types))
                      filtered_data == AtLeast(team_data, Relax(team_data, min_weapons))
                  IN  IF NRows(filtered_data) = 0
                      THEN NoData(NoDataConditions)
                      ELSE IF ~HasColumn(filtered_data, "seconds")
                      THEN Raise("KeyError: seconds")
                      ELSE Mean(filtered_data["seconds"])

\* self.data after the call: DataFrame.assign returns a new table, and the
\* call assigns to its local names only
average_timer_with_weapons_inplace(d, team, side, min_weapons, weapon_types) ==
    IF MissingColumn(d, <<"team", "side", "weapon_classes">>) = "" /\ IsList(weapon_types)
    THEN SetColumn(d, "weapon_count", WeaponCountColumn(d, weapon_types.list))
    ELSE d

average_timer_with_weapons_data(d, team, side, min_weapons, weapon_types) == d

(***************************************************************************)
(* heatmap_coordinates                                                     *)
(*                                                                         *)
(* pandas.cut(values, 10): ten right-closed intervals of equal width from  *)
(* the values' minimum to their maximum, whose lowest edge is moved down   *)
(* by 0.1% of the range so that the minimum falls in the first interval.   *)
(* When all values are equal the range is first widened by 0.1% of the     *)
(* value's magnitude (by 0.001 at zero) on both sides.  Edges are kept     *)
(* multiplied by Scale, which makes them integers.                         *)
(***************************************************************************)
Scale == bins * 1000

Abs(n) == IF n < 0 THEN 0 - n ELSE n

SeqMin(s) == CHOOSE v \in Range(s) : \A w \in Range(s) : v <= w

SeqMax(s) == CHOOSE v \in Range(s) : \A w \in Range(s) : v >= w

CutEdgesUnadjusted(values) ==
    LET mn == SeqMin(values)
        mx == SeqMax(values)
    IN  IF mn = mx
        THEN LET adj == IF mn # 0 THEN bins * Abs(mn) ELSE bins
             IN  [k \in 0..bins |-> Scale * mn - adj + k * ((2 * adj) \div bins)]
        ELSE [k \in 0..bins |-> Scale * mn + k * 1000 * (mx - mn)]

CutEdges(values) ==
    LET mn == SeqMin(values)
        mx == SeqMax(values)
    IN  IF mn = mx
        THEN LET adj == IF mn # 0 THEN bins * Abs(mn) ELSE bins
             IN  [k \in 0..bins |-> Scale * mn - adj + k * ((2 * adj) \div bins)]
        ELSE [k \in 0..bins |->
                 IF k = 0 THEN Scale * mn - bins * (mx - mn)
                 ELSE Scale * mn + k * 1000 * (mx - mn)]

\* the interval of v, or -1 (NaN) when v lies in none: groupby drops such a row
CutBin(v, edges) ==
    IF \E b \in 0..(bins - 1) : edges[b] < Scale * v /\ Scale * v <= edges[b + 1]
    THEN CHOOSE b \in 0..(bins - 1) : edges[b] < Scale * v /\ Scale * v <= edges[b + 1]
    ELSE -1

\* groupby([cut(x), cut(y)]).size().unstack(): every pair of intervals is a
\* cell, also the pairs no row falls in
HeatmapData(team_data) ==
    LET xe == CutEdges(team_data["x"])
        ye == CutEdges(team_data["y"])
    IN  [bx \in 0..(bins - 1) |-> [by \in 0..(bins - 1) |->
            Cardinality({ i \in Rows(team_data) :
                            /\ CutBin(team_data["x"][i], xe) = bx
                            /\ CutBin(team_data["y"][i], ye) = by })]]

heatmap_coordinates_returns(d, team, side) ==
    IF MissingColumn(d, <<"team", "side", "in_boundary">>) # ""
    THEN Raise("KeyError: " \o MissingColumn(d, <<"team", "side", "in_boundary">>))
    ELSE LET team_data ==
                 SelectRows(d, [i \in Rows(d) |-> /\ TeamSideMask(d, team, side)[i]
                                                  /\ d["in_boundary"][i]])
         IN  IF NRows(team_data) = 0
             THEN NoData(NoDataTeamSide)
             ELSE Grid(HeatmapData(team_data))

(***************************************************************************)
(* The tables the model loads and the arguments it queries with.           *)
(***************************************************************************)
\* the boundary_vertices argument: a triangle
BoundaryVertices == << <<0, 0>>, <<6, 0>>, <<0, 6>> >>

AllColumns == {"x", "y", "z", "team", "side", "seconds", "inventory"}

Row(x, y, z, team, side, seconds, inventory) ==
    [x |-> x, y |-> y, z |-> z, team |-> team, side |-> side,
     seconds |-> seconds, inventory |-> inventory]

\* the table of the rows t, with the columns cs
Table(t, cs) == [c \in cs |-> [i \in 1..Len(t) |-> t[i][c]]]

Teams == {"A", "B"}

Sides == {"T", "CT"}

\* every position of the grid at a height below, at, between, at and above
\* the bounds of the zone
GeoRows ==
    { Row(x, y, z, "A", "T", 1, None) :
        x \in 0..MaxXY, y \in 0..MaxXY, z \in {ZMin - 1, ZMin, 300, ZMax, ZMax + 1} }

\* inventory items: two dicts with a class, one without, and two that are no dict
Items ==
    { Dict([class |-> "rifle"]), Dict([class |-> "pistol"]), Dict([name |-> "ak47"]),
      Scalar(7), None }

InvRows ==
    { Row(1, 1, 300, "A", "T", 1, inv) :
        inv \in {None, Scalar(7)} \cup { List(s) : s \in SeqsUpTo(Items, MaxInv) } }

\* rows of three team/side pairs at three places inside the zone and one outside
ZoneRows ==
    { Row(p[1], p[2], 300, ts[1], ts[2], 1, None) :
        p \in { <<1, 1>>, <<4, 1>>, <<1, 3>>, <<4, 4>> },
        ts \in { <<"A", "T">>, <<"A", "CT">>, <<"B", "T">> } }

\* rows of one team with four loadouts and two timer values, and two rows of
\* the other team
LoadoutRows ==
    { Row(1, 1, 300, "A", "T", seconds, List(inv)) :
        seconds \in {5, 8},
        inv \in { <<>>, << Dict([class |-> "rifle"]) >>,
                  << Dict([class |-> "rifle"]), Dict([class |-> "rifle"]) >>,
                  << Dict([class |-> "rifle"]), Dict([class |-> "pistol"]) >> } }
      \cup { Row(1, 1, 300, "B", "T", 5, List(inv)) :
                inv \in { <<>>, << Dict([class |-> "rifle"]) >> } }

\* five rows of one team and side spread over the zone, one outside it and one
\* of the other side
SpreadRows ==
    << Row(1, 1, 300, "A", "T", 1, None), Row(2, 1, 300, "A", "T", 1, None),
       Row(4, 1, 300, "A", "T", 1, None), Row(1, 3, 300, "A", "T", 1, None),
       Row(2, 2, 300, "A", "T", 1, None), Row(5, 5, 300, "A", "T", 1, None),
       Row(3, 2, 300, "A", "CT", 1, None) >>

\* three rows of one team and side that carry 2, 1 and 0 of rifle and pistol
ExampleRows ==
    << Row(1, 1, 300, "A", "T", 5, List(<< Dict([class |-> "rifle"]),
                                          Dict([class |-> "pistol"]) >>)),
       Row(2, 1, 300, "A", "T", 8, List(<< Dict([class |-> "rifle"]) >>)),
       Row(1, 3, 500, "A", "T", 9, List(<<>>)) >>

\* rows at a vertex, on two edges, and inside the triangle just below, at the
\* ends of and just above the height range
EdgeRows ==
    << Row(0, 0, 300, "A", "T", 1, None), Row(3, 3, 300, "A", "T", 1, None),
       Row(0, 2, 300, "A", "T", 1, None), Row(2, 2, ZMin - 1, "A", "T", 1, None),
       Row(2, 2, ZMin, "A", "T", 1, None), Row(2, 2, ZMax, "A", "T", 1, None),
       Row(2, 2, ZMax + 1, "A", "T", 1, None) >>

\* the tables loaded with every column
FullTables ==
    { <<r>> : r \in GeoRows \cup InvRows }
      \cup SeqsUpTo(ZoneRows, MaxRows)
      \cup SeqsUpTo(LoadoutRows, MaxRows)
      \cup {ExampleRows, EdgeRows, SpreadRows}

\* the tables loaded with one of these columns missing
OptionalColumns == {"team", "side", "seconds", "inventory"}

PartialTables == { <<>>, ExampleRows }

WeaponTypesArgs ==
    { List(<<>>), List(<<"rifle", "pistol">>), List(<<"rifle", "rifle">>), None }

NoCall == [op |-> "none", team |-> "", side |-> "", min_weapons |-> 0,
           weapon_types |-> None]

NoReturn == [kind |-> "none", value |-> ""]

Init ==
    /\ \/ \E t \in FullTables : data = Table(t, AllColumns)
       \/ \E t \in PartialTables, c \in OptionalColumns :
              data = Table(t, AllColumns \ {c})
    /\ loaded = data
    /\ polygon = BoundaryVertices
    /\ pc = "loaded"
    /\ weapon_counts = <<>>
    /\ raised = ""
    /\ call = NoCall
    /\ ret = NoReturn

(***************************************************************************)
(* The queries as operations on a constructed object.                      *)
(***************************************************************************)
team_strategy ==
    /\ pc = "constructed"
    /\ call = NoCall
    /\ \E team \in Teams, side \in Sides :
        /\ call' = [op |-> "team_strategy", team |-> team, side |-> side,
                    min_weapons |-> 0, weapon_types |-> None]
        /\ ret' = team_strategy_returns(data, team, side)
    /\ UNCHANGED <<loaded, data, polygon, pc, raised, weapon_counts>>

average_timer_with_weapons ==
    /\ pc = "constructed"
    /\ call = NoCall
    /\ \E team \in Teams, side \in Sides, min_weapons \in 0..MaxMinWeapons,
          weapon_types \in WeaponTypesArgs :
        /\ call' = [op |-> "average_timer_with_weapons", team |-> team, side |-> side,
                    min_weapons |-> min_weapons, weapon_types |-> weapon_types]
        /\ ret' = average_timer_with_weapons_returns(data, team, side, min_weapons,
                                                     weapon_types)
        /\ weapon_counts' = average_timer_with_weapons_counts(data, team, side,
                                                              min_weapons, weapon_types)
        /\ data' = average_timer_with_weapons_data(data, team, side, min_weapons,
                                                   weapon_types)
    /\ UNCHANGED <<loaded, polygon, pc, raised>>

heatmap_coordinates ==
    /\ pc = "constructed"
    /\ call = NoCall
    /\ \E team \in Teams, side \in Sides :
        /\ call' = [op |-> "heatmap_coordinates", team |-> team, side |-> side,
                    min_weapons |-> 0, weapon_types |-> None]
        /\ ret' = heatmap_coordinates_returns(data, team, side)
    /\ UNCHANGED <<loaded, data, polygon, pc, raised, weapon_counts>>

\* the caller takes the outcome of the query; the object is ready for the next
return_to_caller ==
    /\ pc = "constructed"
    /\ call # NoCall
    /\ call' = NoCall
    /\ ret' = NoReturn
    /\ weapon_counts' = <<>>
    /\ UNCHANGED <<loaded, data, polygon, pc, raised>>

Next ==
    \/ filter_rows_in_boundary
    \/ extract_weapon_classes
    \/ team_strategy
    \/ average_timer_with_weapons
    \/ heatmap_coordinates
    \/ return_to_caller

Spec == Init /\ [][Next]_vars

(***************************************************************************)
(* Properties.                                                             *)
(***************************************************************************)
RECURSIVE SumOver(_, _)
SumOver(S, f) ==
    IF S = {} THEN 0
    ELSE LET i == CHOOSE j \in S : TRUE IN f[i] + SumOver(S \ {i}, f)

\* the rows of the table that match team and side
Matching(d, team, side) ==
    { i \in Rows(d) : d["team"][i] = team /\ d["side"][i] = side }

\* strictly inside the triangle (0,0), (6,0), (0,6), by its three half-planes
InsideTriangle(x, y) == x > 0 /\ y > 0 /\ x + y < 6

\* C1: once filter_rows_in_boundary has run, every row of the loaded table is
\* still there with its values, and its in_boundary is true exactly when its
\* point is strictly inside the polygon and 285 <= z <= 421.
C1_InBoundaryIff ==
    HasColumn(data, "in_boundary") =>
        /\ \A c \in DOMAIN loaded : data[c] = loaded[c]
        /\ DOMAIN data["in_boundary"] = 1..NRows(loaded)
        /\ \A i \in Rows(loaded) :
              data["in_boundary"][i] =
                  (/\ InsideTriangle(loaded["x"][i], loaded["y"][i])
                   /\ 285 <= loaded["z"][i]
                   /\ loaded["z"][i] <= 421)

\* a table with rows at a vertex, on an edge, and inside at z = 284, 285, 421
C1_Witness ==
    /\ HasColumn(data, "in_boundary")
    /\ NRows(data) = 7
    /\ \E v, e, lo, a, b \in Rows(data) :
        /\ <<data["x"][v], data["y"][v], data["z"][v]>> = <<0, 0, 300>>
        /\ ~data["in_boundary"][v]
        /\ <<data["x"][e], data["y"][e], data["z"][e]>> = <<3, 3, 300>>
        /\ ~data["in_boundary"][e]
        /\ <<data["x"][lo], data["y"][lo], data["z"][lo]>> = <<2, 2, 284>>
        /\ ~data["in_boundary"][lo]
        /\ <<data["x"][a], data["y"][a], data["z"][a]>> = <<2, 2, 285>>
        /\ data["in_boundary"][a]
        /\ <<data["x"][b], data["y"][b], data["z"][b]>> = <<2, 2, 421>>
        /\ data["in_boundary"][b]

LacksClass(item) == IsDict(item) /\ "class" \notin DOMAIN item.dict

\* C2: on a constructed object, a row's weapon_classes is empty when its
\* inventory is null, empty when some item of the inventory lacks the class
\* field, and otherwise the items' class values in inventory order.
C2_WeaponClassesOfInventory ==
    pc = "constructed" =>
        /\ DOMAIN data["weapon_classes"] = 1..NRows(loaded)
        /\ \A i \in Rows(loaded) :
            LET inv == loaded["inventory"][i]
                wc == data["weapon_classes"][i]
            IN  IF IsNone(inv) THEN wc = <<>>
                ELSE IF \E k \in DOMAIN inv.list : LacksClass(inv.list[k])
                THEN wc = <<>>
                ELSE /\ Len(wc) = Len(inv.list)
                     /\ \A k \in DOMAIN inv.list : wc[k] = inv.list[k].dict["class"]

\* a row whose first item has a class and whose second has none
C2_Witness ==
    /\ pc = "constructed"
    /\ \E i \in Rows(data) :
        LET inv == data["inventory"][i]
        IN  /\ IsList(inv)
            /\ Len(inv.list) = 2
            /\ inv.list[1] = Dict([class |-> "rifle"])
            /\ LacksClass(inv.list[2])
            /\ data["weapon_classes"][i] = <<>>

\* C3: a table that has an inventory column is constructed whatever its
\* inventory cells hold: the construction does not fail, the rows are kept
\* and every row has an in_boundary and a weapon_classes value.
C3_EnrichmentTotal ==
    HasColumn(loaded, "inventory") =>
        /\ pc # "failed"
        /\ pc = "constructed" =>
              /\ NRows(data) = NRows(loaded)
              /\ DOMAIN data["in_boundary"] = 1..NRows(loaded)
              /\ DOMAIN data["weapon_classes"] = 1..NRows(loaded)

MissingInventoryMessage == "ValueError: Missing 'inventory' column in DataFrame"

\* C4: a table without an inventory column is never constructed and never
\* queried: extract_weapon_classes, which runs once in_boundary is set, ends
\* the construction with the missing-column error.
C4_MissingInventoryAborts ==
    /\ [](~HasColumn(loaded, "inventory") =>
             /\ pc # "constructed"
             /\ call = NoCall
             /\ ret = NoReturn
             /\ pc = "failed" => /\ raised = MissingInventoryMessage
                                 /\ HasColumn(data, "in_boundary"))
    /\ [][(pc = "filtered" /\ ~HasColumn(loaded, "inventory")) =>
             (pc' = "failed" /\ raised' = MissingInventoryMessage)]_vars

C4_Witness ==
    /\ ~HasColumn(loaded, "inventory")
    /\ NRows(loaded) = 3
    /\ pc = "failed"
    /\ raised = MissingInventoryMessage

\* C5: on a table with team and side columns, team_strategy returns the
\* no-data sentinel exactly when no row matches team and side, and otherwise
\* the number of matching rows in the zone over the number of matching rows.
C5_TeamStrategy ==
    (call.op = "team_strategy" /\ HasColumn(data, "team") /\ HasColumn(data, "side")) =>
        LET M == Matching(data, call.team, call.side)
            Z == { i \in M : data["in_boundary"][i] }
        IN  /\ (ret = NoData(NoDataTeamSide)) <=> (M = {})
            /\ M # {} =>
                /\ ret = Float(Cardinality(Z), Cardinality(M))
                /\ 0 <= ret.value[1] /\ ret.value[1] <= ret.value[2]
                /\ (Z = {}) <=> (ret.value[1] = 0)
                /\ (Z = M) <=> (ret.value[1] = ret.value[2])

\* two matching rows, neither in the zone: 0.0 and not the sentinel
C5_Witness ==
    /\ call.op = "team_strategy"
    /\ Cardinality(Matching(data, call.team, call.side)) = 2
    /\ NRows(data) = 2
    /\ ret = Float(0, 2)

WellFormedTimerCall ==
    /\ call.op = "average_timer_with_weapons"
    /\ HasColumn(data, "team") /\ HasColumn(data, "side") /\ HasColumn(data, "seconds")
    /\ IsList(call.weapon_types)

\* C6: on a table with team, side and seconds columns and for a list of
\* weapon types, average_timer_with_weapons returns the no-data sentinel
\* exactly when no row matches team and side, and otherwise the mean of
\* seconds over the matching rows whose weapon_count is at least m*, the
\* largest m in 0..min_weapons that some matching row's weapon_count reaches.
C6_RelaxedAverage ==
    WellFormedTimerCall =>
        LET M == Matching(data, call.team, call.side)
            wc == [i \in M |-> weapon_count(data["weapon_classes"][i],
                                             call.weapon_types.list)]
            reached == { m \in 0..call.min_weapons : \E i \in M : wc[i] >= m }
        IN  /\ (ret = NoData(NoDataConditions)) <=> (M = {})
            /\ M # {} =>
                LET mstar == CHOOSE m \in reached : \A n \in reached : n <= m
                    S == { i \in M : wc[i] >= mstar }
                IN  /\ S # {}
                    /\ ret = Float(SumOver(S, data["seconds"]), Cardinality(S))

\* weapon counts 2, 1, 0 and min_weapons = 3: the mean of the first row alone
C6_Witness ==
    /\ WellFormedTimerCall
    /\ call.min_weapons = 3
    /\ weapon_counts = <<2, 1, 0>>
    /\ data["seconds"] = <<5, 8, 9>>
    /\ ret = Float(5, 1)

\* C7: the weapon_count of a matching row is the number of distinct requested
\* weapon types found in the row's weapon_classes, and so never exceeds the
\* number of distinct requested types.
C7_DistinctTypesCounted ==
    WellFormedTimerCall =>
        LET M == SelectRows(data, TeamSideMask(data, call.team, call.side))
            requested == Range(call.weapon_types.list)
        IN  /\ Len(weapon_counts) = NRows(M)
            /\ \A k \in Rows(M) :
                /\ weapon_counts[k] =
                       Cardinality({ w \in requested : w \in Range(M["weapon_classes"][k]) })
                /\ weapon_counts[k] <= Cardinality(requested)

\* C8: average_timer_with_weapons raises nothing: every call returns a float,
\* the no-data sentinel or an error message, and a call on a table that
\* lacks a column it reads returns an error message.
C8_NeverRaises ==
    call.op = "average_timer_with_weapons" =>
        /\ ret.kind \in {"float", "nodata", "error"}
        /\ (\E c \in {"team", "side", "seconds"} : ~HasColumn(data, c)) =>
              ret.kind \in {"nodata", "error"}

\* v lies in interval b of the ten equal-width right-closed intervals that
\* divide mn..mx, the first of which also holds mn (mn < mx)
InEqualWidthBin(v, b, mn, mx) ==
    \/ b = 0 /\ v = mn
    \/ b * (mx - mn) < 10 * (v - mn) /\ 10 * (v - mn) <= (b + 1) * (mx - mn)

\* the rows of F whose value in the column lies in interval b
Column_Bin(d, F, column, b) ==
    LET vals == { d[column][i] : i \in F }
        mn == CHOOSE v \in vals : \A w \in vals : v <= w
        mx == CHOOSE v \in vals : \A w \in vals : v >= w
    IN  { i \in F : InEqualWidthBin(d[column][i], b, mn, mx) }

Spread(d, F, column) == Cardinality({ d[column][i] : i \in F }) > 1

\* C9: on a table with team and side columns, heatmap_coordinates returns the
\* no-data sentinel exactly when no row matches team and side with
\* in_boundary true.  Otherwise it returns 10 x 10 counts that sum to the
\* number of filtered rows; along an axis whose values differ the intervals
\* divide the filtered rows' own min..max evenly and hold every filtered row,
\* those at the minimum and the maximum included; along an axis whose values
\* are all equal every row falls in one and the same interval.
C9_HeatmapGrid ==
    (call.op = "heatmap_coordinates" /\ HasColumn(data, "team") /\ HasColumn(data, "side")) =>
        LET F == { i \in Matching(data, call.team, call.side) : data["in_boundary"][i] }
            B == 0..9
            g == ret.value
        IN  /\ (ret = NoData(NoDataTeamSide)) <=> (F = {})
            /\ F # {} =>
                /\ ret.kind = "grid"
                /\ DOMAIN g = B
                /\ \A bx \in B : DOMAIN g[bx] = B /\ \A by \in B : g[bx][by] \in Nat
                /\ SumOver(B, [bx \in B |-> SumOver(B, g[bx])]) = Cardinality(F)
                /\ IF Spread(data, F, "x")
                   THEN \A bx \in B :
                          SumOver(B, g[bx]) = Cardinality(Column_Bin(data, F, "x", bx))
                   ELSE \E bx \in B : SumOver(B, g[bx]) = Cardinality(F)
                /\ IF Spread(data, F, "y")
                   THEN \A by \in B :
                          SumOver(B, [bx \in B |-> g[bx][by]])
                              = Cardinality(Column_Bin(data, F, "y", by))
                   ELSE \E by \in B :
                          SumOver(B, [bx \in B |-> g[bx][by]]) = Cardinality(F)
                /\ (Spread(data, F, "x") /\ Spread(data, F, "y")) =>
                      \A bx, by \in B :
                          g[bx][by] = Cardinality(Column_Bin(data, F, "x", bx)
                                                    \cap Column_Bin(data, F, "y", by))

\* five filtered rows of seven: x = 1, 2, 4 fall in intervals 0, 3, 9 and
\* y = 1, 2, 3 in intervals 0, 4, 9
C9_Witness ==
    /\ call.op = "heatmap_coordinates"
    /\ ret.kind = "grid"
    /\ data["x"] = <<1, 2, 4, 1, 2, 5, 3>>
    /\ data["y"] = <<1, 1, 1, 3, 2, 5, 2>>
    /\ ret.value[0][0] = 1
    /\ ret.value[3][0] = 1
    /\ ret.value[9][0] = 1
    /\ ret.value[0][9] = 1
    /\ ret.value[3][4] = 1

\* C10: no query changes the enriched table or the polygon of a constructed
\* object, and the table never has a weapon_count column.
C10_QueriesReadOnly ==
    [][pc = "constructed" =>
          /\ data' = data
          /\ polygon' = polygon
          /\ "weapon_count" \notin DOMAIN data'
          /\ pc' = "constructed"]_vars

\* average_timer_with_weapons has computed weapon counts and returned a mean,
\* and the table is the enriched table still
C10_Witness ==
    /\ call.op = "average_timer_with_weapons"
    /\ ret.kind = "float"
    /\ weapon_counts # <<>>
    /\ DOMAIN data = AllColumns \cup {"in_boundary", "weapon_classes"}
    /\ \A c \in AllColumns : data[c] = loaded[c]

====
